---- MODULE Spec2Model ----
(***************************************************************************)
(* Location assistant (GPS + IP tracker).                                  *)
(*                                                                         *)
(* Two state machines share this module:                                   *)
(*   SpecIp  one call of fetchIpInfo (services/ipService, the three        *)
(*           provider cascade built on fetchWithTimeout), step by step;    *)
(*   Spec    the App component: loadLocationData, the geolocation          *)
(*           callbacks, the useEffect on gpsData, resolveAddressWithGemini *)
(*           and the settlement of the fetchIpInfo promises it started.    *)
(***************************************************************************)
EXTENDS Integers, Sequences, FiniteSets, TLC

(***************************************************************************)
(* JavaScript values                                                       *)
(***************************************************************************)
\* The string literals of the source that are not ASCII are written as
\* MSG_ names, one name per literal:
\*   MSG_UNKNOWN_IP                  part_000:35       "unknown"
\*   MSG_NETWORK_INFO_UNAVAILABLE    part_000:70       "cannot get network information"
\*   MSG_GEOLOCATION_UNSUPPORTED     App.tsx:59        "your browser does not support positioning"
\*   MSG_ALLOW_LOCATION_PERMISSION   App.tsx:79        "please allow the browser to get your location"
\*   MSG_GPS_SIGNAL_WEAK             App.tsx:80        "GPS signal weak, cannot get position"
\*   MSG_POSITION_REQUEST_TIMEOUT    App.tsx:81        "position request timed out"
\*   MSG_POSITION_FAILED             App.tsx:77        "positioning failed"
\*   MSG_ADDRESS_NOT_PARSED          App.tsx:130       "cannot parse the detailed address"
\*   MSG_ADDRESS_TIMEOUT_OR_FAILED   App.tsx:137       "address resolution timed out or failed"

\* the value of an absent JSON field / of response.text when there is none
Undef == "<undefined>"

\* a state slot holding null (useState<...|null>(null), useRef(null))
Null == [null |-> TRUE]

\* JS truthiness of a string-or-undefined value
Falsy(v) == v = Undef \/ v = ""

\* a || b
JsOr(a, b) == IF Falsy(a) THEN b ELSE a

(***************************************************************************)
(* fetchWithTimeout and fetchIpInfo  (src/unnamed/part_000)                *)
(***************************************************************************)
DefaultTimeout == 5000
TimeoutA == 5000
TimeoutB == 5000
TimeoutC == 3000

Providers == <<"A", "B", "C">>

\* the timeout option fetchIpInfo passes for each provider
TimeoutOf(p) == CASE p = "A" -> TimeoutA
                  [] p = "B" -> TimeoutB
                  [] p = "C" -> TimeoutC
                  [] OTHER   -> DefaultTimeout

\* JSON bodies the three providers can answer with (absent fields are Undef)
PayloadsA == { [ipAddress |-> "1.1.1.1", city |-> "Shanghai", regionName |-> "SH", countryName |-> "China"],
               [ipAddress |-> Undef, city |-> Undef, regionName |-> Undef, countryName |-> Undef] }

PayloadsB == { [ip |-> "2.2.2.2", city |-> "Paris", region |-> "IDF", country_name |-> "France", org |-> "Orange", asn |-> "AS3215"],
               [ip |-> "2.2.2.2", city |-> "Paris", region |-> "IDF", country_name |-> "France", org |-> Undef, asn |-> "AS3215"],
               [ip |-> Undef, city |-> Undef, region |-> Undef, country_name |-> Undef, org |-> Undef, asn |-> Undef] }

PayloadsC == { [ip |-> "3.3.3.3"], [ip |-> Undef] }

PayloadsOf(p) == CASE p = "A" -> PayloadsA
                   [] p = "B" -> PayloadsB
                   [] p = "C" -> PayloadsC

\* the IpInfo built from provider A's body (db-ip)
NormA(data) == [ip      |-> JsOr(data.ipAddress, "MSG_UNKNOWN_IP"),
                city    |-> JsOr(data.city, ""),
                region  |-> JsOr(data.regionName, ""),
                country |-> JsOr(data.countryName, ""),
                org     |-> "Unknown Provider"]

\* the IpInfo built from provider B's body (ipapi.co)
NormB(data) == [ip      |-> data.ip,
                city    |-> data.city,
                region  |-> data.region,
                country |-> data.country_name,
                org     |-> JsOr(data.org, data.asn)]

\* the IpInfo built from provider C's body (ipify)
NormC(data) == [ip |-> data.ip, city |-> "", region |-> "", country |-> "", org |-> ""]

Normalize(p, data) == CASE p = "A" -> NormA(data)
                        [] p = "B" -> NormB(data)
                        [] p = "C" -> NormC(data)

\* the error fetchIpInfo rejects with
Unavailable == [error |-> "MSG_NETWORK_INFO_UNAVAILABLE"]

\* whether the step of provider p throws on a response whose ok flag is FALSE
ChecksOk(p) == p \in {"A", "B"}

\* a cascade that goes from A straight to C
NextProviderSkipsB(p) == CASE p = "A" -> "C"
                           [] OTHER   -> "none"

NextProvider(p) == CASE p = "A" -> "B"
                     [] p = "B" -> "C"
                     [] OTHER   -> "none"

VARIABLES
    ipStep,     \* the provider the call is at ("none" before the call)
    ipPhase,    \* "idle" | "fetch" (awaiting fetch) | "json" (awaiting response.json())
                \* | "returned" | "rejected"
    ipTimers,   \* the pending setTimeout callbacks: records [prov, ms]
    ipResult,   \* Null, the IpInfo returned, or the error thrown
    ipLog       \* history: one record per provider contacted, in order:
                \* [prov, http, body, data]

ipVars == <<ipStep, ipPhase, ipTimers, ipResult, ipLog>>

InitIp ==
    /\ ipStep = "none"
    /\ ipPhase = "idle"
    /\ ipTimers = {}
    /\ ipResult = Null
    /\ ipLog = <<>>

\* history bookkeeping: set field f of the last entry of the log
LogSet(log, f, v) == [log EXCEPT ![Len(log)] = [@ EXCEPT ![f] = v]]

\* fetchWithTimeout(resource, {timeout}) up to its await: the timer is
\* scheduled and the request is sent
StartFetch(p) ==
    /\ ipStep' = p
    /\ ipPhase' = "fetch"
    /\ ipTimers' = ipTimers \cup {[prov |-> p, ms |-> TimeoutOf(p)]}
    /\ ipLog' = Append(ipLog, [prov |-> p, http |-> "pending", body |-> "none", data |-> Null])

\* the catch block of the current step: the next provider, or the final throw
StepFailed(log, timers) ==
    IF NextProvider(ipStep) = "none"
    THEN /\ ipStep' = ipStep
         /\ ipPhase' = "rejected"
         /\ ipResult' = Unavailable
         /\ ipTimers' = timers
         /\ ipLog' = log
    ELSE /\ ipStep' = NextProvider(ipStep)
         /\ ipPhase' = "fetch"
         /\ ipResult' = ipResult
         /\ ipTimers' = timers \cup {[prov |-> NextProvider(ipStep), ms |-> TimeoutOf(NextProvider(ipStep))]}
         /\ ipLog' = Append(log, [prov |-> NextProvider(ipStep), http |-> "pending", body |-> "none", data |-> Null])

\* fetchIpInfo() is called
CallFetchIpInfo ==
    /\ ipPhase = "idle"
    /\ StartFetch("A")
    /\ ipResult' = ipResult

\* fetch resolves with a response (status ok or not): clearTimeout, then the
\* caller's ok check
FetchResponds(ok) ==
    /\ ipPhase = "fetch"
    /\ LET timers == ipTimers \ {[prov |-> ipStep, ms |-> TimeoutOf(ipStep)]}
           log    == LogSet(ipLog, "http", IF ok THEN "ok" ELSE "notok")
       IN  IF ~ok /\ ChecksOk(ipStep)
           THEN StepFailed(log, timers)
           ELSE /\ ipPhase' = "json"
                /\ ipTimers' = timers
                /\ ipLog' = log
                /\ UNCHANGED <<ipStep, ipResult>>

\* fetch rejects with a network error: the await throws before clearTimeout
FetchNetworkError ==
    /\ ipPhase = "fetch"
    /\ StepFailed(LogSet(ipLog, "http", "neterr"), ipTimers)

\* a timer fires: controller.abort(). The pending fetch of that controller
\* rejects (AbortError); a fetch that already settled is not affected.
TimerFires(t) ==
    /\ t \in ipTimers
    /\ IF ipPhase = "fetch" /\ t.prov = ipStep
       THEN StepFailed(LogSet(ipLog, "http", "timeout"), ipTimers \ {t})
       ELSE /\ ipTimers' = ipTimers \ {t}
            /\ UNCHANGED <<ipStep, ipPhase, ipResult, ipLog>>

\* response.json() resolves: the step returns its normalized record
JsonParsed(data) ==
    /\ ipPhase = "json"
    /\ data \in PayloadsOf(ipStep)
    /\ ipPhase' = "returned"
    /\ ipResult' = Normalize(ipStep, data)
    /\ ipLog' = LogSet(LogSet(ipLog, "body", "parsed"), "data", data)
    /\ UNCHANGED <<ipStep, ipTimers>>

\* response.json() rejects (the body is not JSON, or the read fails)
JsonFails ==
    /\ ipPhase = "json"
    /\ StepFailed(LogSet(ipLog, "body", "parsefail"), ipTimers)

\* the settlements of fetchIpInfo() the App is run against: one record of
\* the first provider, one of the last, and the rejection
IpOutcomes == { NormA(CHOOSE d \in PayloadsA : ~Falsy(d.ipAddress)),
                NormC(CHOOSE d \in PayloadsC : ~Falsy(d.ip)),
                Unavailable }

(***************************************************************************)
(* App  (src/App.tsx)                                                      *)
(***************************************************************************)
\* bounds of the model
MaxLoads == 2

\* LocationStatus
IDLE == "IDLE"
LOADING == "LOADING"
SUCCESS == "SUCCESS"
ERROR == "ERROR"
DENIED == "DENIED"

\* strings the address text is made of: a string is a sequence of tokens,
\* SP is a whitespace character
SP == " "
IsSpace(ch) == ch = SP

RECURSIVE TrimStart(_)
TrimStart(s) == IF s # <<>> /\ IsSpace(Head(s)) THEN TrimStart(Tail(s)) ELSE s

RECURSIVE TrimEnd(_)
TrimEnd(s) == IF s # <<>> /\ IsSpace(s[Len(s)]) THEN TrimEnd(SubSeq(s, 1, Len(s) - 1)) ELSE s

\* String.prototype.trim
Trim(s) == TrimEnd(TrimStart(s))

\* response.text of the grounding answer: absent, or a string
NoText == [defined |-> FALSE, text |-> <<>>]
Texts == { NoText,
           [defined |-> TRUE, text |-> <<>>],
           [defined |-> TRUE, text |-> <<"addr">>],
           [defined |-> TRUE, text |-> <<SP, "addr", SP>>],
           [defined |-> TRUE, text |-> <<SP>>] }

\* truthiness of response.text
HasText(r) == r.defined /\ r.text # <<>>

SoftFailAddress == <<"MSG_ADDRESS_NOT_PARSED">>
FailedAddress == <<"MSG_ADDRESS_TIMEOUT_OR_FAILED">>

\* positions the device can report
Lats == {31, 32}
Lngs == {121, 122}
Accuracies == {10}

\* GeolocationPositionError values: the three codes of the platform, and an
\* unrecognised one, each with a platform message
GeoErrors == { [code |-> c, message |-> m] : c \in {0, 1, 2, 3}, m \in {"", "User denied Geolocation"} }

NoGeolocationMsg == "MSG_GEOLOCATION_UNSUPPORTED"

\* a switch without its default branch: msg keeps its initial value
GeoErrorMsgNoDefault(error) ==
    CASE error.code = 1 -> "MSG_ALLOW_LOCATION_PERMISSION"
      [] error.code = 2 -> "MSG_GPS_SIGNAL_WEAK"
      [] error.code = 3 -> "MSG_POSITION_REQUEST_TIMEOUT"
      [] OTHER          -> "MSG_POSITION_FAILED"

\* the switch on error.code of the error callback
GeoErrorMsg(error) ==
    CASE error.code = 1 -> "MSG_ALLOW_LOCATION_PERMISSION"
      [] error.code = 2 -> "MSG_GPS_SIGNAL_WEAK"
      [] error.code = 3 -> "MSG_POSITION_REQUEST_TIMEOUT"
      [] OTHER          -> error.message

VARIABLES
    status, errorMsg, ipData, gpsData, addressData,   \* useState
    lastResolvedCoords, isMounted,                    \* useRef
    hasGeo,         \* whether navigator.geolocation exists
    loads,          \* number of loadLocationData runs so far (the cycle number)
    ipCalls,        \* per cycle: "none", "pending", or the settlement of its fetchIpInfo()
    geoReqs,        \* cycles whose getCurrentPosition has not called back yet
    addrCalls,      \* generateContent calls in flight: [lat, lng, cycle, id], id the
                    \* number of the resolveAddressWithGemini call
    fixLog,         \* history: the fixes stored in gpsData: [cycle, lat, lng]
    resolveLog      \* history: the calls of resolveAddressWithGemini: [cycle, lat, lng]

appVars == <<status, errorMsg, ipData, gpsData, addressData, lastResolvedCoords,
             isMounted, hasGeo, loads, ipCalls, geoReqs, addrCalls,
             fixLog, resolveLog>>

vars == <<appVars, ipVars>>

Cycles == 1..MaxLoads

InitApp ==
    /\ status = IDLE
    /\ errorMsg = ""
    /\ ipData = Null
    /\ gpsData = Null
    /\ addressData = Null
    /\ lastResolvedCoords = Null
    /\ isMounted = TRUE
    /\ hasGeo \in BOOLEAN
    /\ loads = 0
    /\ ipCalls = [c \in Cycles |-> [state |-> "none", result |-> Null]]
    /\ geoReqs = {}
    /\ addrCalls = {}
    /\ fixLog = <<>>
    /\ resolveLog = <<>>

histVars == <<fixLog, resolveLog>>

\* the guard of the useEffect on gpsData: the coordinates were already started
SameCoords(last, gps) ==
    /\ last # Null
    /\ last.lat = gps.latitude
    /\ last.lng = gps.longitude

\* a load that forgets to reset the guard
GuardOnLoadKept(last) == last

\* lastResolvedCoords.current = null
GuardOnLoad(last) == Null

\* a load that checks for the geolocation capability before it starts the
\* IP resolution
StartFetchIpInfoIfGeo(calls, c) ==
    IF hasGeo THEN [calls EXCEPT ![c] = [state |-> "pending", result |-> Null]] ELSE calls

\* fetchIpInfo() is called for cycle c (without awaiting it)
StartFetchIpInfo(calls, c) == [calls EXCEPT ![c] = [state |-> "pending", result |-> Null]]

\* a load that tests for the capability before it sets LOADING
LoadStatusWritesErrorOnly == IF hasGeo THEN <<LOADING>> ELSE <<ERROR>>

\* the setStatus calls of one run of loadLocationData, in order: LOADING on
\* entry, then ERROR when navigator.geolocation is missing
LoadStatusWrites == IF hasGeo THEN <<LOADING>> ELSE <<LOADING, ERROR>>

\* the setErrorMsg calls of one run of loadLocationData, in order
LoadErrorWrites == IF hasGeo THEN <<"">> ELSE <<"", NoGeolocationMsg>>

\* the updates of one handler are applied in order: the last one stays
LastWrite(writes) == writes[Len(writes)]

\* a refresh button that is never disabled
RefreshAlwaysEnabled == TRUE

\* the refresh button: disabled={status === LocationStatus.LOADING}
RefreshEnabled == status # LOADING

\* a load that forgets setAddressData(null)
LoadLocationDataKeepsAddress ==
    /\ RefreshEnabled
    /\ loads < MaxLoads
    /\ IF ~isMounted
       THEN UNCHANGED appVars
       ELSE /\ loads' = loads + 1
            /\ status' = LastWrite(LoadStatusWrites)
            /\ errorMsg' = LastWrite(LoadErrorWrites)
            /\ lastResolvedCoords' = GuardOnLoad(lastResolvedCoords)
            /\ ipCalls' = StartFetchIpInfo(ipCalls, loads + 1)
            /\ geoReqs' = IF hasGeo THEN geoReqs \cup {loads + 1} ELSE geoReqs
            /\ UNCHANGED <<addressData, ipData, gpsData, isMounted, hasGeo, addrCalls, histVars>>

\* loadLocationData: the mount effect (status is IDLE then), and the refresh
\* button
LoadLocationData ==
    /\ RefreshEnabled
    /\ loads < MaxLoads
    /\ IF ~isMounted
       THEN UNCHANGED appVars
       ELSE /\ loads' = loads + 1
            /\ status' = LastWrite(LoadStatusWrites)
            /\ errorMsg' = LastWrite(LoadErrorWrites)
            /\ addressData' = Null
            /\ lastResolvedCoords' = GuardOnLoad(lastResolvedCoords)
            /\ ipCalls' = StartFetchIpInfo(ipCalls, loads + 1)
            /\ geoReqs' = IF hasGeo THEN geoReqs \cup {loads + 1} ELSE geoReqs
            /\ UNCHANGED <<ipData, gpsData, isMounted, hasGeo, addrCalls, histVars>>

\* a then handler without the isMounted check
IpThenUnguarded(data) == data

\* fetchIpInfo() of cycle c settles: the then / catch handlers of loadLocationData
IpThen(data) == IF isMounted THEN data ELSE ipData

IpCatch(e) == ipData

\* a settlement whose catch handler shows the error instead of logging it
IpSettlesSurfacingError(c, outcome) ==
    /\ ipCalls[c].state = "pending"
    /\ ipCalls' = [ipCalls EXCEPT ![c] = [state |-> IF outcome = Unavailable THEN "rejected" ELSE "returned",
                                          result |-> outcome]]
    /\ ipData' = IF outcome = Unavailable \/ ~isMounted THEN ipData ELSE outcome
    /\ status' = IF outcome = Unavailable /\ isMounted THEN ERROR ELSE status
    /\ errorMsg' = IF outcome = Unavailable /\ isMounted THEN outcome.error ELSE errorMsg
    /\ UNCHANGED <<gpsData, addressData, lastResolvedCoords,
                   isMounted, hasGeo, loads, geoReqs, addrCalls, histVars>>

IpSettles(c, outcome) ==
    /\ ipCalls[c].state = "pending"
    /\ ipCalls' = [ipCalls EXCEPT ![c] = [state |-> IF outcome = Unavailable THEN "rejected" ELSE "returned",
                                          result |-> outcome]]
    /\ ipData' = IF outcome = Unavailable THEN IpCatch(outcome) ELSE IpThen(outcome)
    /\ UNCHANGED <<status, errorMsg, gpsData, addressData, lastResolvedCoords,
                   isMounted, hasGeo, loads, geoReqs, addrCalls, histVars>>

\* a success callback that also calls setStatus(SUCCESS)
GeoSuccessSetsSuccess(c, lat, lng, acc) ==
    /\ c \in geoReqs
    /\ geoReqs' = geoReqs \ {c}
    /\ IF ~isMounted
       THEN UNCHANGED <<status, gpsData, lastResolvedCoords, addrCalls, fixLog, resolveLog>>
       ELSE LET gps == [latitude |-> lat, longitude |-> lng, accuracy |-> acc, timestamp |-> c]
            IN  /\ gpsData' = gps
                /\ status' = SUCCESS
                /\ fixLog' = Append(fixLog, [cycle |-> loads, lat |-> lat, lng |-> lng])
                /\ IF SameCoords(lastResolvedCoords, gps)
                   THEN UNCHANGED <<lastResolvedCoords, addrCalls, resolveLog>>
                   ELSE /\ lastResolvedCoords' = [lat |-> lat, lng |-> lng]
                        /\ addrCalls' = addrCalls \cup {[lat |-> lat, lng |-> lng, cycle |-> loads,
                                                          id |-> Len(resolveLog) + 1]}
                        /\ resolveLog' = Append(resolveLog, [cycle |-> loads, lat |-> lat, lng |-> lng])
    /\ UNCHANGED <<errorMsg, ipData, addressData, isMounted, hasGeo, loads, ipCalls>>

\* success callback of getCurrentPosition, the render it causes and the
\* useEffect on gpsData that runs after it
GeoSuccess(c, lat, lng, acc) ==
    /\ c \in geoReqs
    /\ geoReqs' = geoReqs \ {c}
    /\ IF ~isMounted
       THEN UNCHANGED <<gpsData, lastResolvedCoords, addrCalls, fixLog, resolveLog>>
       ELSE LET gps == [latitude |-> lat, longitude |-> lng, accuracy |-> acc, timestamp |-> c]
            IN  /\ gpsData' = gps
                /\ fixLog' = Append(fixLog, [cycle |-> loads, lat |-> lat, lng |-> lng])
                /\ IF SameCoords(lastResolvedCoords, gps)
                   THEN UNCHANGED <<lastResolvedCoords, addrCalls, resolveLog>>
                   ELSE /\ lastResolvedCoords' = [lat |-> lat, lng |-> lng]
                        /\ addrCalls' = addrCalls \cup {[lat |-> lat, lng |-> lng, cycle |-> loads,
                                                          id |-> Len(resolveLog) + 1]}
                        /\ resolveLog' = Append(resolveLog, [cycle |-> loads, lat |-> lat, lng |-> lng])
    /\ UNCHANGED <<status, errorMsg, ipData, addressData, isMounted, hasGeo, loads,
                   ipCalls>>

\* an error callback that also gives up the fetchIpInfo() of its cycle
GeoErrorCancelsIp(c, error) ==
    /\ c \in geoReqs
    /\ geoReqs' = geoReqs \ {c}
    /\ IF ~isMounted
       THEN UNCHANGED <<status, errorMsg, ipCalls>>
       ELSE /\ status' = DENIED
            /\ errorMsg' = GeoErrorMsg(error)
            /\ ipCalls' = [ipCalls EXCEPT ![c] = IF @.state = "pending"
                                                  THEN [state |-> "rejected", result |-> Unavailable]
                                                  ELSE @]
    /\ UNCHANGED <<ipData, gpsData, addressData, lastResolvedCoords, isMounted, hasGeo,
                   loads, addrCalls, histVars>>

\* error callback of getCurrentPosition
GeoError(c, error) ==
    /\ c \in geoReqs
    /\ geoReqs' = geoReqs \ {c}
    /\ IF ~isMounted
       THEN UNCHANGED <<status, errorMsg>>
       ELSE /\ status' = DENIED
            /\ errorMsg' = GeoErrorMsg(error)
    /\ UNCHANGED <<ipData, gpsData, addressData, lastResolvedCoords, isMounted, hasGeo,
                   loads, ipCalls, addrCalls, histVars>>

\* an address taken from the text as it came
AddressOfUntrimmed(r) ==
    IF HasText(r)
    THEN [formattedAddress |-> r.text, poiName |-> "Google Maps Data"]
    ELSE [formattedAddress |-> SoftFailAddress, poiName |-> ""]

\* the state written after generateContent answered with response r
AddressOf(r) ==
    IF HasText(r)
    THEN [formattedAddress |-> Trim(r.text), poiName |-> "Google Maps Data"]
    ELSE [formattedAddress |-> SoftFailAddress, poiName |-> ""]

\* resolveAddressWithGemini after its await: generateContent resolved
AddrResolves(call, r) ==
    /\ call \in addrCalls
    /\ addrCalls' = addrCalls \ {call}
    /\ IF ~isMounted
       THEN UNCHANGED <<status, addressData>>
       ELSE /\ addressData' = AddressOf(r)
            /\ status' = SUCCESS
    /\ UNCHANGED <<errorMsg, ipData, gpsData, lastResolvedCoords, isMounted, hasGeo,
                   loads, ipCalls, geoReqs, histVars>>

\* a catch block that sets SUCCESS and leaves the address as it is
AddrThrowsNoPlaceholder(call) ==
    /\ call \in addrCalls
    /\ addrCalls' = addrCalls \ {call}
    /\ IF ~isMounted
       THEN UNCHANGED status
       ELSE status' = SUCCESS
    /\ UNCHANGED <<addressData, errorMsg, ipData, gpsData, lastResolvedCoords, isMounted,
                   hasGeo, loads, ipCalls, geoReqs, histVars>>

\* resolveAddressWithGemini after its await: the call threw (catch block)
AddrThrows(call) ==
    /\ call \in addrCalls
    /\ addrCalls' = addrCalls \ {call}
    /\ IF ~isMounted
       THEN UNCHANGED <<status, addressData>>
       ELSE /\ status' = SUCCESS
            /\ addressData' = [formattedAddress |-> FailedAddress, poiName |-> ""]
    /\ UNCHANGED <<errorMsg, ipData, gpsData, lastResolvedCoords, isMounted, hasGeo,
                   loads, ipCalls, geoReqs, histVars>>

\* cleanup of the mount effect
Unmount ==
    /\ isMounted
    /\ isMounted' = FALSE
    /\ UNCHANGED <<status, errorMsg, ipData, gpsData, addressData, lastResolvedCoords,
                   hasGeo, loads, ipCalls, geoReqs, addrCalls, histVars>>

(***************************************************************************)
(* The App: the component and the settlements of what it started           *)
(***************************************************************************)
Init == InitApp /\ InitIp

Next ==
    \/ LoadLocationData /\ UNCHANGED ipVars
    \/ \E c \in Cycles, outcome \in IpOutcomes : IpSettles(c, outcome) /\ UNCHANGED ipVars
    \/ \E c \in Cycles, lat \in Lats, lng \in Lngs, acc \in Accuracies :
          GeoSuccess(c, lat, lng, acc) /\ UNCHANGED ipVars
    \/ \E c \in Cycles, error \in GeoErrors : GeoError(c, error) /\ UNCHANGED ipVars
    \/ \E call \in addrCalls, r \in Texts : AddrResolves(call, r) /\ UNCHANGED ipVars
    \/ \E call \in addrCalls : AddrThrows(call) /\ UNCHANGED ipVars
    \/ Unmount /\ UNCHANGED ipVars

Spec == Init /\ [][Next]_vars

\* a getCurrentPosition request calls one of its two callbacks
GeoCallsBack ==
    \/ \E c \in Cycles, lat \in Lats, lng \in Lngs, acc \in Accuracies :
          GeoSuccess(c, lat, lng, acc) /\ UNCHANGED ipVars
    \/ \E c \in Cycles, error \in GeoErrors : GeoError(c, error) /\ UNCHANGED ipVars

\* a generateContent call returns or throws
AddrCompletes ==
    \/ \E call \in addrCalls, r \in Texts : AddrResolves(call, r) /\ UNCHANGED ipVars
    \/ \E call \in addrCalls : AddrThrows(call) /\ UNCHANGED ipVars

\* The App with a browser that answers every geolocation request and a
\* grounding service whose every call settles. Nothing makes fetchIpInfo()
\* settle, the user press refresh, or the component unmount.
FairSpec == Spec /\ WF_vars(GeoCallsBack) /\ WF_vars(AddrCompletes)

(***************************************************************************)
(* One call of fetchIpInfo, by itself                                      *)
(***************************************************************************)
InitIpSpec == InitIp /\ InitApp /\ hasGeo

NextIp ==
    \/ CallFetchIpInfo /\ UNCHANGED appVars
    \/ \E ok \in BOOLEAN : FetchResponds(ok) /\ UNCHANGED appVars
    \/ FetchNetworkError /\ UNCHANGED appVars
    \/ \E t \in ipTimers : TimerFires(t) /\ UNCHANGED appVars
    \/ \E data \in PayloadsA \cup PayloadsB \cup PayloadsC : JsonParsed(data) /\ UNCHANGED appVars
    \/ JsonFails /\ UNCHANGED appVars

SpecIp == InitIpSpec /\ [][NextIp]_vars

\* setTimeout callbacks are run by the event loop: an armed timer fires.
\* Nothing makes the network answer.
FairSpecIp == SpecIp /\ WF_vars(\E t \in ipTimers : TimerFires(t) /\ UNCHANGED appVars)

(***************************************************************************)
(* Properties of fetchIpInfo  (of SpecIp and FairSpecIp)                   *)
(***************************************************************************)
Settled == ipPhase \in {"returned", "rejected"}

\* an attempt failed in the sense of the specification: non-success HTTP
\* status, parse failure, timeout or network error
AttemptFailed(a) == a.http \in {"notok", "neterr", "timeout"} \/ a.body = "parsefail"

AttemptSucceeded(a) == a.body = "parsed"

\* C1: a settled fetchIpInfo call has rejected with the terminal error
\* exactly when all three provider attempts failed, a non-success HTTP
\* status counting as a failure; with three HTTP 500 answers it rejects and
\* returns no record.
C1_RejectsIffAllThreeFailed ==
    Settled =>
        /\ (ipPhase = "rejected" /\ ipResult = Unavailable)
              <=> (Len(ipLog) = 3 /\ \A i \in 1..3 : AttemptFailed(ipLog[i]))
        /\ (Len(ipLog) = 3 /\ \A i \in 1..3 : ipLog[i].http = "notok")
              => (ipPhase = "rejected" /\ ipResult = Unavailable)

\* C2: the providers are contacted in the order A, B, C, each at most once;
\* a provider is contacted only after every earlier one failed, none after
\* one succeeded, and the record returned is the one normalized from the
\* body of the first provider that succeeded.
C2_OrderedCascade ==
    /\ Len(ipLog) <= Len(Providers)
    /\ \A i \in 1..Len(ipLog) : ipLog[i].prov = Providers[i]
    /\ \A i \in 1..Len(ipLog) : i < Len(ipLog) => AttemptFailed(ipLog[i]) /\ ~AttemptSucceeded(ipLog[i])
    /\ ipPhase = "returned" =>
          /\ AttemptSucceeded(ipLog[Len(ipLog)])
          /\ ipLog[Len(ipLog)].data \in PayloadsOf(ipLog[Len(ipLog)].prov)
          /\ ipResult = Normalize(ipLog[Len(ipLog)].prov, ipLog[Len(ipLog)].data)
    /\ (\E i \in 1..Len(ipLog) : AttemptSucceeded(ipLog[i])) => ipPhase = "returned"

\* C2 witness: A and B failed, C was contacted last and its record returned
C2_Witness ==
    /\ ipPhase = "returned"
    /\ Len(ipLog) = 3
    /\ ipLog[1].http = "notok"
    /\ ipLog[2].body = "parsefail"
    /\ ipResult.ip = "3.3.3.3"

\* C5: a provider attempt that has not completed is aborted by its timeout
\* and counted as a failure, so no attempt stays pending forever and every
\* fetchIpInfo call eventually settles.
C5_EveryCallSettles == (ipPhase \in {"fetch", "json"}) ~> Settled

\* the five fields of an IpInfo
IpInfoFields == {"ip", "city", "region", "country", "org"}

\* C11: every record fetchIpInfo returns has its five fields defined (a
\* field absent from the body became the empty string or the placeholder,
\* never undefined), and a record from provider C has city, region, country
\* and org empty.
C11_FieldsAlwaysDefined ==
    ipPhase = "returned" =>
        /\ DOMAIN ipResult = IpInfoFields
        /\ \A f \in IpInfoFields : ipResult[f] # Undef
        /\ ipStep = "C" => \A f \in IpInfoFields \ {"ip"} : ipResult[f] = ""

\* C14: the abort timer of every fetchWithTimeout call that has settled
\* (response, network error or abort) has been cleared: a pending timer
\* belongs to the fetch that is still awaited.
C14_NoTimerOfSettledFetch ==
    \A t \in ipTimers : ipPhase = "fetch" /\ ipStep = t.prov

(***************************************************************************)
(* Properties of the App  (of Spec)                                        *)
(***************************************************************************)
Pairs == Lats \X Lngs

\* number of entries of a history for the pair <<lat, lng>> in cycle c
CountOf(log, c, pr) ==
    Cardinality({ i \in 1..Len(log) : log[i] = [cycle |-> c, lat |-> pr[1], lng |-> pr[2]] })

\* C3: in every cycle (from one load/refresh to the next) the address
\* grounding is invoked exactly once for each coordinate pair of which a fix
\* was delivered, however often, and for no other pair; so fixes with
\* distinct coordinates in two cycles give one invocation per pair.
C3_OncePerPairPerCycle ==
    \A c \in Cycles, pr \in Pairs :
        CountOf(resolveLog, c, pr) = (IF CountOf(fixLog, c, pr) >= 1 THEN 1 ELSE 0)

\* C3 witness: two cycles delivered fixes, the second one with the first
\* one's latitude and another longitude; each pair was resolved once
C3_Witness ==
    /\ Len(fixLog) = 2
    /\ fixLog[1].cycle = 1 /\ fixLog[2].cycle = 2
    /\ fixLog[1].lat = fixLog[2].lat /\ fixLog[1].lng # fixLog[2].lng
    /\ Len(resolveLog) = 2
    /\ resolveLog[1] = fixLog[1] /\ resolveLog[2] = fixLog[2]

\* C4: once isMounted is false, no step changes status, errorMsg, ipData,
\* gpsData or addressData.
C4_NoWriteAfterTeardown ==
    [][~isMounted => UNCHANGED <<status, errorMsg, ipData, gpsData, addressData>>]_vars

\* C4 witness: after the teardown an IP resolution returned a record and the
\* geolocation request called back, and nothing of it was written
C4_Witness ==
    /\ ~isMounted
    /\ \E c \in Cycles : ipCalls[c].state = "returned"
    /\ ipData = Null
    /\ status = LOADING /\ geoReqs = {} /\ addrCalls = {}

\* the message the specification gives for each error code
C6_Message(error) ==
    IF error.code = 1 THEN "MSG_ALLOW_LOCATION_PERMISSION"
    ELSE IF error.code = 2 THEN "MSG_GPS_SIGNAL_WEAK"
    ELSE IF error.code = 3 THEN "MSG_POSITION_REQUEST_TIMEOUT"
    ELSE error.message

\* C6: a geolocation failure handled while mounted sets status to DENIED and
\* errorMsg to the message of the error code, the platform message for an
\* unrecognised code.
C6_GeoErrorMessage ==
    [][\A c \in Cycles, error \in GeoErrors :
          (isMounted /\ GeoError(c, error)) => (status' = DENIED /\ errorMsg' = C6_Message(error))]_vars

\* C6 witness: an unrecognised code passed the platform message through
C6_Witness == status = DENIED /\ errorMsg = "User denied Geolocation"

\* t is s without its leading and trailing whitespace
C7_IsTrimOf(t, s) ==
    /\ \E i \in 0..Len(s), j \in 0..Len(s) :
          /\ i + Len(t) + j = Len(s)
          /\ \A k \in 1..i : s[k] = SP
          /\ \A k \in 1..Len(t) : s[i + k] = t[k]
          /\ \A k \in 1..j : s[i + Len(t) + k] = SP
    /\ t # <<>> => (t[1] # SP /\ t[Len(t)] # SP)

\* C7: an address resolution that completes while mounted ends with status
\* SUCCESS and a non-null addressData: the trimmed text, the placeholder for
\* an answer without text, or the placeholder for a call that threw.
C7_AddressAlwaysSucceeds ==
    [][\A call \in addrCalls :
          /\ \A r \in Texts :
                (isMounted /\ AddrResolves(call, r)) =>
                    /\ status' = SUCCESS
                    /\ addressData' # Null
                    /\ IF r.defined /\ r.text # <<>>
                       THEN C7_IsTrimOf(addressData'.formattedAddress, r.text)
                       ELSE addressData'.formattedAddress = <<"MSG_ADDRESS_NOT_PARSED">>
          /\ (isMounted /\ AddrThrows(call)) =>
                    /\ status' = SUCCESS
                    /\ addressData' # Null
                    /\ addressData'.formattedAddress = <<"MSG_ADDRESS_TIMEOUT_OR_FAILED">>]_vars

\* C7 witness: the grounding call threw and the cycle ended in SUCCESS
C7_Witness ==
    /\ status = SUCCESS
    /\ addressData # Null
    /\ addressData.formattedAddress = <<"MSG_ADDRESS_TIMEOUT_OR_FAILED">>

\* C8: without the geolocation capability a load ends with status ERROR and
\* the "not supported" message, requests no position (gpsData stays as it
\* was, no address resolution starts) and still starts the IP resolution.
C8_NoGeolocation ==
    (~hasGeo /\ loads >= 1) =>
        /\ status = ERROR
        /\ errorMsg = "MSG_GEOLOCATION_UNSUPPORTED"
        /\ geoReqs = {}
        /\ gpsData = Null
        /\ addrCalls = {} /\ resolveLog = <<>> /\ addressData = Null
        /\ \A c \in 1..loads : ipCalls[c].state # "none"

\* C8 witness: a refresh without the capability, its IP resolution started
C8_Witness == ~hasGeo /\ loads = 2 /\ status = ERROR /\ ipCalls[2].state = "pending"

\* C9: the settlement of an IP resolution, success or total failure, changes
\* none of status, errorMsg, gpsData and addressData.
C9_IpSettlementFrame ==
    [][(\E c \in Cycles : ipCalls[c].state = "pending" /\ ipCalls'[c].state \in {"returned", "rejected"})
          => UNCHANGED <<status, errorMsg, gpsData, addressData>>]_vars

\* C9 witness: an IP resolution failed on all providers in a cycle that
\* ended in SUCCESS without an error message
C9_Witness ==
    /\ \E c \in Cycles : ipCalls[c].state = "rejected"
    /\ status = SUCCESS
    /\ errorMsg = ""

\* C10: on a mounted component, when the IP resolution of a cycle fails on
\* all providers ipData is null once the failure is handled, and when it
\* succeeds ipData is the record it returned.
C10_IpDataAfterSettlement ==
    [][\A c \in Cycles :
          (isMounted /\ ipCalls[c].state = "pending") =>
              /\ ipCalls'[c].state = "rejected" => ipData' = Null
              /\ ipCalls'[c].state = "returned" => ipData' = ipCalls'[c].result]_vars

\* the values status takes in one step, in order: the value before it and
\* the values the handler set
StatusPath ==
    IF loads' # loads THEN <<status>> \o LoadStatusWrites ELSE <<status, status'>>

\* C12: status enters SUCCESS, ERROR or DENIED only from LOADING and enters
\* LOADING only through a load/refresh; once it is SUCCESS only a
\* load/refresh changes it.
C12_StatusTransitions ==
    [][/\ StatusPath[Len(StatusPath)] = status'
       /\ \A k \in 2..Len(StatusPath) :
             /\ (StatusPath[k] \in {SUCCESS, ERROR, DENIED} /\ StatusPath[k] # StatusPath[k - 1])
                   => StatusPath[k - 1] = LOADING
             /\ (StatusPath[k] = LOADING /\ StatusPath[k - 1] # LOADING)
                   => loads' = loads + 1
       /\ (status = SUCCESS /\ status' # SUCCESS) => loads' = loads + 1]_vars

\* C12 witness: a second cycle went from LOADING to SUCCESS after the first
\* one had ended in DENIED
C12_Witness ==
    /\ loads = 2
    /\ status = SUCCESS
    /\ Len(fixLog) = 1 /\ fixLog[1].cycle = 2

\* C13: a load/refresh on a mounted component sets status to LOADING and
\* errorMsg to the empty string (its first setStatus and setErrorMsg calls;
\* they stay unless the geolocation capability is missing), addressData and
\* the guard to null, and leaves gpsData and ipData as they were.
C13_LoadResets ==
    [][(isMounted /\ loads' = loads + 1) =>
          /\ Head(LoadStatusWrites) = LOADING
          /\ Head(LoadErrorWrites) = ""
          /\ status' = LastWrite(LoadStatusWrites)
          /\ errorMsg' = LastWrite(LoadErrorWrites)
          /\ hasGeo => (status' = LOADING /\ errorMsg' = "")
          /\ addressData' = Null
          /\ lastResolvedCoords' = Null
          /\ gpsData' = gpsData
          /\ ipData' = ipData]_vars

\* C13 witness: a refresh after a successful cycle: the address and the
\* guard are reset, the fix and the IP record of the cycle before are kept
C13_Witness ==
    /\ loads = 2 /\ geoReqs = {2}
    /\ status = LOADING /\ errorMsg = ""
    /\ addressData = Null /\ lastResolvedCoords = Null
    /\ gpsData # Null /\ ipData # Null

\* the address-resolution calls in flight for the pair pr
InFlightFor(pr) == {call \in addrCalls : <<call.lat, call.lng>> = pr}

\* C15: at most one address-resolution call is in flight per
\* (latitude, longitude) pair, and while a call is in flight the guard
\* lastResolvedCoords holds the pair of that call.
C15_OneInFlightPerPair ==
    /\ \A pr \in Pairs : Cardinality(InFlightFor(pr)) <= 1
    /\ \A call \in addrCalls : lastResolvedCoords = [lat |-> call.lat, lng |-> call.lng]

\* C15 witness: a call in flight in the second cycle for the pair that the
\* first cycle resolved
C15_Witness ==
    /\ Len(resolveLog) = 2
    /\ resolveLog[1].cycle = 1
    /\ \E call \in addrCalls :
          /\ call.cycle = 2
          /\ <<call.lat, call.lng>> = <<resolveLog[1].lat, resolveLog[1].lng>>

\* the call is for the fix that gps holds
CallIsFor(call, gps) ==
    gps # Null /\ gps.latitude = call.lat /\ gps.longitude = call.lng

\* the log has an entry of cycle c for the coordinates of the call
Logged(log, call) ==
    \E i \in 1..Len(log) :
        log[i] = [cycle |-> call.cycle, lat |-> call.lat, lng |-> call.lng]

\* C16: within a cycle the order is fix stored, address resolution started,
\* status SUCCESS: a resolution starts only for a fix stored in gpsData, the
\* geolocation success callback leaves status as it was, and status becomes
\* SUCCESS only in a step that completes a resolution started in this cycle
\* for the stored fix.
C16_FixThenResolveThenSuccess ==
    [][/\ \A call \in addrCalls' \ addrCalls :
             CallIsFor(call, gpsData') /\ Logged(fixLog', call) /\ call.cycle = loads
       /\ fixLog' # fixLog => status' = status
       /\ (status' = SUCCESS /\ status # SUCCESS) =>
             \E call \in addrCalls \ addrCalls' :
                 /\ CallIsFor(call, gpsData)
                 /\ Logged(fixLog, call) /\ Logged(resolveLog, call)
                 /\ call.cycle = loads]_vars

\* C16 witness: a cycle that went through the three events
C16_Witness ==
    /\ status = SUCCESS
    /\ gpsData # Null /\ addressData # Null
    /\ Len(fixLog) = 1 /\ Len(resolveLog) = 1 /\ addrCalls = {}

\* what the geolocation branch of a cycle writes and reads
geoBranchVars == <<status, errorMsg, gpsData, addressData, lastResolvedCoords,
                   geoReqs, addrCalls, fixLog, resolveLog>>

\* what the IP branch of a cycle writes
ipBranchVars == <<ipData, ipCalls>>

\* C17: the IP resolution and the geolocation branch of a cycle do not
\* touch each other's state: a step of the geolocation branch (a callback
\* or an address completion) changes neither ipData nor the outstanding
\* fetchIpInfo() calls, a settlement of fetchIpInfo() changes nothing of the
\* geolocation branch, a call that returns on a mounted component populates
\* ipData whatever status is (DENIED and ERROR included), and so in a first
\* cycle ipData is fixed by the call's settlement alone, whichever branch
\* completed first.
C17_BranchesIndependent ==
    [][/\ (loads' = loads /\ (geoReqs' # geoReqs \/ addrCalls' # addrCalls))
             => UNCHANGED ipBranchVars
       /\ (loads' = loads /\ ipCalls' # ipCalls) => UNCHANGED geoBranchVars
       /\ \A c \in Cycles :
             (isMounted /\ ipCalls[c].state = "pending" /\ ipCalls'[c].state = "returned")
                 => ipData' = ipCalls'[c].result
       /\ (loads' = 1 /\ isMounted' /\ ipCalls'[1].state = "returned")
             => ipData' = ipCalls'[1].result
       /\ (loads' = 1 /\ ipCalls'[1].state = "rejected") => ipData' = Null]_vars

\* C17 witness: a first cycle whose geolocation failed and whose IP
\* resolution returned its record all the same
C17_Witness ==
    /\ loads = 1 /\ geoReqs = {}
    /\ status \in {DENIED, ERROR}
    /\ ipCalls[1].state = "returned"
    /\ ipData # Null /\ ipData = ipCalls[1].result

\* C18: whenever status is SUCCESS, gpsData and addressData are both
\* non-null; whenever status is LOADING, addressData is null.
C18_StatusAndData ==
    /\ status = SUCCESS => (gpsData # Null /\ addressData # Null)
    /\ status = LOADING => addressData = Null

\* C18 witness: SUCCESS reached through the catch block, with the fix and
\* the placeholder address in place
C18_Witness ==
    /\ status = SUCCESS
    /\ gpsData # Null
    /\ addressData = [formattedAddress |-> FailedAddress, poiName |-> ""]

\* C19: once the fetchIpInfo() calls of two cycles have both settled on a
\* mounted component, the later one having returned a record, ipData holds
\* the record of the later call, whichever settled first.
C19_LaterIpResultWins ==
    (/\ isMounted
     /\ ipCalls[1].state \in {"returned", "rejected"}
     /\ ipCalls[2].state = "returned")
        => ipData = ipCalls[2].result

\* C20: every load leaves LOADING: while the component stays mounted, the
\* geolocation request calls back and the grounding call settles, a status
\* of LOADING is followed by SUCCESS, ERROR or DENIED (and the refresh
\* button is enabled again), also when the fix has the coordinates of the
\* cycle before.
C20_LoadingEnds ==
    (status = LOADING) ~> (~isMounted \/ (status \in {SUCCESS, ERROR, DENIED} /\ RefreshEnabled))

\* C20 witness: a second cycle that got the coordinates of the first and
\* reached SUCCESS all the same
C20_Witness ==
    /\ loads = 2 /\ isMounted
    /\ status = SUCCESS /\ RefreshEnabled
    /\ Len(fixLog) = 2 /\ Len(resolveLog) = 2
    /\ <<fixLog[1].lat, fixLog[1].lng>> = <<fixLog[2].lat, fixLog[2].lng>>
    /\ fixLog[1].cycle = 1 /\ fixLog[2].cycle = 2

====
